---- MODULE Spec2Model ----
(***************************************************************************)
(* Model of scripts/format_testcases.py: one process run of the script     *)
(* (both module-level __main__ guards), the output directory test-cases/,  *)
(* and, for the re-run properties, consecutive process runs over the same  *)
(* directory.                                                              *)
(*                                                                         *)
(* JSON values are records [k, v]: k is "absent" (key not in the dict),    *)
(* "null" (JSON null, Python None), "str" or "int"; v is the payload.      *)
(* uuid strings are TLA+ strings; createdAt strings are sequences of digit  *)
(* codes (<<1, 0>> is "10"), compared as Python compares str:              *)
(* lexicographically, a proper prefix being smaller.                       *)
(***************************************************************************)
EXTENDS Integers, Sequences, FiniteSets, TLC

\* ------------------------------------------------------------------ bounds
MaxLen == 2        \* longest data.content list of a single-run input
MaxRerunLen == 2   \* longest data.content list of an input of a re-run
MaxRuns == 2       \* consecutive process runs over one output directory

\* ------------------------------------------------------------- JSON values
AbsentStr == [k |-> "absent", v |-> ""]
Str(s) == [k |-> "str", v |-> s]
AbsentTs == [k |-> "absent", v |-> <<>>]
NullTs == [k |-> "null", v |-> <<>>]
NATs == [k |-> "na", v |-> <<>>]
AbsentInt == [k |-> "absent", v |-> 0]
Int_(n) == [k |-> "int", v |-> n]

\* bool(x) is False: a missing key read with .get(), None, "" or 0
Falsy(x) ==
  \/ x.k \in {"absent", "null"}
  \/ x.k = "str" /\ Len(x.v) = 0
  \/ x.k = "int" /\ x.v = 0

\* d.get(key, default)
Get(field, default) == IF field.k = "absent" THEN default ELSE field

\* Python's str < str
LexLess(a, b) ==
  \E n \in 1..(Len(b)) :
     /\ \A m \in 1..(n - 1) : m <= Len(a) /\ a[m] = b[m]
     /\ \/ n = Len(a) + 1
        \/ n <= Len(a) /\ a[n] < b[n]

\* ------------------------------------------------------------------ inputs
UuidVals == {AbsentStr, Str(""), Str("a"), Str("INDEX")}
CreatedVals == {AbsentTs, NullTs, Str(<<>>), Str(<<1>>), Str(<<1, 0>>), Str(<<2>>)}
TotalVals == {AbsentInt, Int_(0)}

TestCases == [uuid : UuidVals, createdAt : CreatedVals]

SeqUpTo(S, n) == UNION {[1..m -> S] : m \in 0..n}

\* file: "missing" | "invalid" (not JSON) | "list" (a JSON array at top level)
\*       | "object"; data: "absent" | "null" | "object"; content: "absent" | "list"
Input(file, data, content, records, total) ==
  [file |-> file, data |-> data, content |-> content, records |-> records,
   totalElements |-> total]

EdgeInputs ==
  { Input("missing", "absent", "absent", <<>>, AbsentInt),
    Input("invalid", "absent", "absent", <<>>, AbsentInt),
    Input("list", "absent", "absent", <<>>, AbsentInt),
    Input("object", "absent", "absent", <<>>, AbsentInt),
    Input("object", "null", "absent", <<>>, AbsentInt),
    Input("object", "object", "absent", <<>>, AbsentInt),
    Input("object", "object", "absent", <<>>, Int_(0)) }

Inputs ==
  EdgeInputs \cup
  { Input("object", "object", "list", r, t) : r \in SeqUpTo(TestCases, MaxLen), t \in TotalVals }

RerunTestCases == [uuid : {AbsentStr, Str("a"), Str("b")}, createdAt : {AbsentTs}]

RerunInputs ==
  EdgeInputs \cup
  { Input("object", "object", "list", r, AbsentInt) : r \in SeqUpTo(RerunTestCases, MaxRerunLen) } \cup
  { Input("object", "object", "list",
          << [uuid |-> Str("a"), createdAt |-> NullTs], [uuid |-> Str("b"), createdAt |-> NullTs] >>,
          AbsentInt) }

\* -------------------------------------------------------------- file system
MdName(stem) == [stem |-> stem, ext |-> "md"]
IndexName == MdName("INDEX")
NoFiles == [n \in {} |-> 0]

Doc(kind, uuid, created, total, entries) ==
  [kind |-> kind, uuid |-> uuid, created |-> created, total |-> total, entries |-> entries]

OtherDoc == Doc("other", "", NATs, AbsentInt, <<>>)

\* a directory left by earlier use: one markdown file and one file that is not
OldFiles == [n \in {MdName("old"), [stem |-> "notes", ext |-> "txt"]} |-> OtherDoc]

WriteFile(fs, name, doc) ==
  [n \in (DOMAIN fs) \cup {name} |-> IF n = name THEN doc ELSE fs[n]]

MdFiles(fs) == {n \in DOMAIN fs : n.ext = "md"}

Count(w, name) == IF name \in DOMAIN w THEN w[name] ELSE 0
Bump(w, name) == [n \in (DOMAIN w) \cup {name} |-> IF n = name THEN Count(w, name) + 1 ELSE w[n]]

\* ------------------------------------------------------------------- state
VARIABLES
  input,          \* content of test-cases-response.json for this process run
  dir_exists,     \* test-cases/ exists
  files,          \* test-cases/: file name -> document
  pc,             \* position in the script
  call,           \* which module-level main() call is running (0: none yet)
  test_cases,     \* main's local test_cases
  idx,            \* position of the for loop over test_cases
  sorted_cases,   \* create_index's sorted copy, as positions in test_cases
  index_content,  \* main's local index_content
  exit_status,    \* process exit status, -1 while running
  exc,            \* exception that left main(), "none" if none
  printed,        \* messages printed by this process run
  wipes,          \* executions of the unlink loop in this process run
  writes,         \* file name -> number of times this process run opened it for writing
  run,            \* number of this process run
  start_dir,      \* dir_exists when this process run started
  start_files,    \* files when this process run started
  prev_writes     \* names the previous process run wrote

vars == << input, dir_exists, files, pc, call, test_cases, idx, sorted_cases,
           index_content, exit_status, exc, printed, wipes, writes, run,
           start_dir, start_files, prev_writes >>

NoDoc == Doc("none", "", NATs, AbsentInt, <<>>)

\* ------------------------------------------------------------ pure functions
\* format_timestamp: "N/A" for a falsy value; the bounded createdAt strings are
\* not ISO-8601, fromisoformat raises and the except branch returns the input.
format_timestamp(timestamp_str) ==
  IF Falsy(timestamp_str) THEN NATs ELSE timestamp_str

\* format_test_case: the fields of the rendering that depend on the record
format_test_case(tc) ==
  Doc("testcase", Get(tc.uuid, Str("N/A")).v, format_timestamp(tc.createdAt), AbsentInt, <<>>)

\* the sort key of create_index: x.get('createdAt', '')
SortKey(tc) == Get(tc.createdAt, Str(<<>>))

\* sorted() compares the keys with <, which raises TypeError as soon as a None
\* meets another key; a list of fewer than two elements is never compared.
SortRaises(tcs) ==
  Len(tcs) >= 2 /\ \E i \in 1..Len(tcs) : SortKey(tcs[i]).k = "null"

\* InsertDesc with reverse=True forgotten: an ascending sort
InsertAsc(tcs, acc, i) ==
  LET p == Cardinality({r \in 1..Len(acc) :
                          ~ LexLess(SortKey(tcs[i]).v, SortKey(tcs[acc[r]]).v)})
  IN SubSeq(acc, 1, p) \o << i >> \o SubSeq(acc, p + 1, Len(acc))

\* one step of a stable descending sort: position i goes behind every position
\* already placed whose key is not smaller
InsertDesc(tcs, acc, i) ==
  LET p == Cardinality({r \in 1..Len(acc) :
                          ~ LexLess(SortKey(tcs[acc[r]]).v, SortKey(tcs[i]).v)})
  IN SubSeq(acc, 1, p) \o << i >> \o SubSeq(acc, p + 1, Len(acc))

RECURSIVE SortedUpTo(_, _)
SortedUpTo(tcs, n) ==
  IF n = 0 THEN << >> ELSE InsertDesc(tcs, SortedUpTo(tcs, n - 1), n)

\* sorted(test_cases, key=..., reverse=True), as positions in test_cases
Sorted(tcs) == SortedUpTo(tcs, Len(tcs))

\* TotalOf written as metadata.get('totalElements') or len(test_cases)
TotalOfOr(tcs, total) == IF Falsy(total) THEN Int_(Len(tcs)) ELSE total

\* metadata.get('totalElements', len(test_cases))
TotalOf(tcs, total) == Get(total, Int_(Len(tcs)))

\* IndexUuid reading a key the records do not have
IndexUuidDefault(tc) == "N/A"

\* tc.get('uuid', 'N/A') in create_index
IndexUuid(tc) == Get(tc.uuid, Str("N/A")).v

Entry(tcs, order, i) ==
  [rank |-> i,
   uuid |-> IndexUuid(tcs[order[i]]),
   link |-> MdName(IndexUuid(tcs[order[i]])),
   created |-> format_timestamp(tcs[order[i]].createdAt)]

create_index(tcs, order, total) ==
  Doc("index", "", NATs, TotalOf(tcs, total), [i \in 1..Len(order) |-> Entry(tcs, order, i)])

\* LoadOutcome with the JSONDecodeError handler falling through instead of exiting
LoadOutcomeLenient(inp) ==
  CASE inp.file = "missing" -> "not_found"
    [] inp.file = "list" -> "AttributeError"
    [] OTHER -> "ok"

\* the outcome of lines 108-121
LoadOutcome(inp) ==
  CASE inp.file = "missing" -> "not_found"
    [] inp.file = "invalid" -> "invalid_json"
    [] inp.file = "list" -> "AttributeError"
    [] OTHER -> "ok"

\* response.get('data', {}).get('content', [])
Content(inp) == IF inp.data = "object" /\ inp.content = "list" THEN inp.records ELSE << >>

\* NoTestCases written as `test_cases is None`, which the [] default never is
NoTestCasesNever(tcs) == FALSE

\* `not test_cases`
NoTestCases(tcs) == Len(tcs) = 0

\* Wipe with the unlink loop commented out
WipeKeep(fs) == fs

\* for old_file in output_dir.glob('*.md'): old_file.unlink()
Wipe(fs) == [n \in {m \in DOMAIN fs : m.ext # "md"} |-> fs[n]]

\* where main() returns to
AfterMain(c) == IF c = 1 THEN "guard2" ELSE "eof"

\* ------------------------------------------------------------------ actions
ProcessStart(inp, dir, fs, r, prev) ==
  /\ input = inp
  /\ dir_exists = dir
  /\ files = fs
  /\ pc = "guard1"
  /\ call = 0
  /\ test_cases = << >>
  /\ idx = 0
  /\ sorted_cases = << >>
  /\ index_content = NoDoc
  /\ exit_status = -1
  /\ exc = "none"
  /\ printed = {}
  /\ wipes = 0
  /\ writes = NoFiles
  /\ run = r
  /\ start_dir = dir
  /\ start_files = fs
  /\ prev_writes = prev

Init ==
  \E inp \in Inputs, old \in BOOLEAN :
     ProcessStart(inp, old, IF old THEN OldFiles ELSE NoFiles, 1, {})

InitRerun ==
  \E inp \in RerunInputs, old \in BOOLEAN :
     ProcessStart(inp, old, IF old THEN OldFiles ELSE NoFiles, 1, {})

\* an exception nobody catches: the interpreter prints the traceback and the
\* process ends with status 1
Raise(e) ==
  /\ exc' = e
  /\ exit_status' = 1
  /\ pc' = "exited"

\* exit(1): SystemExit ends the process with status 1
Exit1 ==
  /\ exit_status' = 1
  /\ pc' = "exited"
  /\ UNCHANGED exc

\* lines 171-172 and 175-176: each `if __name__ == '__main__': main()`
Guard ==
  /\ pc \in {"guard1", "guard2"}
  /\ call' = call + 1
  /\ pc' = "load"
  /\ UNCHANGED << input, dir_exists, files, test_cases, idx, sorted_cases, index_content,
                  exit_status, exc, printed, wipes, writes, run, start_dir, start_files,
                  prev_writes >>

\* lines 108-121: read and parse the response file, print its status
Load ==
  /\ pc = "load"
  /\ CASE LoadOutcome(input) = "not_found" ->
            /\ printed' = printed \cup {"Error: test-cases-response.json not found!"}
            /\ Exit1
       [] LoadOutcome(input) = "invalid_json" ->
            /\ printed' = printed \cup {"Error: Invalid JSON"}
            /\ Exit1
       [] LoadOutcome(input) = "AttributeError" ->
            /\ printed' = printed \cup {"API Response received"}
            /\ Raise("AttributeError")
       [] OTHER ->
            /\ printed' = printed \cup {"API Response received", "Status"}
            /\ pc' = "extract"
            /\ UNCHANGED << exit_status, exc >>
  /\ UNCHANGED << input, dir_exists, files, call, test_cases, idx, sorted_cases,
                  index_content, wipes, writes, run, start_dir, start_files, prev_writes >>

\* lines 124-133: take data.content, return when there is none
Extract ==
  /\ pc = "extract"
  /\ IF input.data = "null"
     THEN /\ Raise("AttributeError")
          /\ UNCHANGED << test_cases, printed >>
     ELSE /\ test_cases' = Content(input)
          /\ UNCHANGED << exit_status, exc >>
          /\ IF NoTestCases(Content(input))
             THEN /\ printed' = printed \cup {"No test cases found in response", "Response keys"}
                  /\ pc' = AfterMain(call)
             ELSE /\ printed' = printed \cup {"Found test case(s)"}
                  /\ pc' = "prepare"
  /\ UNCHANGED << input, dir_exists, files, call, idx, sorted_cases, index_content,
                  wipes, writes, run, start_dir, start_files, prev_writes >>

\* lines 136-141: create the output directory, delete its *.md files
Prepare ==
  /\ pc = "prepare"
  /\ dir_exists' = TRUE
  /\ files' = Wipe(files)
  /\ wipes' = wipes + 1
  /\ idx' = 1
  /\ pc' = "loop"
  /\ UNCHANGED << input, call, test_cases, sorted_cases, index_content, exit_status, exc,
                  printed, run, start_dir, start_files, writes, prev_writes >>

\* lines 144-148: a record without a uuid is skipped
SkipRecord ==
  /\ pc = "loop"
  /\ idx <= Len(test_cases)
  /\ Falsy(test_cases[idx].uuid)
  /\ printed' = printed \cup {"Skipping test case without UUID"}
  /\ idx' = idx + 1
  /\ UNCHANGED << input, dir_exists, files, pc, call, test_cases, sorted_cases,
                  index_content, exit_status, exc, wipes, writes, run, start_dir,
                  start_files, prev_writes >>

\* lines 144-157: a record with a uuid is rendered into <uuid>.md
WriteRecord ==
  /\ pc = "loop"
  /\ idx <= Len(test_cases)
  /\ ~ Falsy(test_cases[idx].uuid)
  /\ files' = WriteFile(files, MdName(test_cases[idx].uuid.v), format_test_case(test_cases[idx]))
  /\ writes' = Bump(writes, MdName(test_cases[idx].uuid.v))
  /\ printed' = printed \cup {"saved"}
  /\ idx' = idx + 1
  /\ UNCHANGED << input, dir_exists, pc, call, test_cases, sorted_cases, index_content,
                  exit_status, exc, wipes, run, start_dir, start_files, prev_writes >>

\* lines 160-161 and 68-102: build the index from all of test_cases
CreateIndex ==
  /\ pc = "loop"
  /\ idx > Len(test_cases)
  /\ IF SortRaises(test_cases)
     THEN /\ Raise("TypeError")
          /\ UNCHANGED << sorted_cases, index_content >>
     ELSE /\ sorted_cases' = Sorted(test_cases)
          /\ index_content' = create_index(test_cases, Sorted(test_cases), input.totalElements)
          /\ pc' = "write_index"
          /\ UNCHANGED << exit_status, exc >>
  /\ UNCHANGED << input, dir_exists, files, call, test_cases, idx, printed, wipes, writes,
                  run, start_dir, start_files, prev_writes >>

\* lines 162-168: write INDEX.md, main() returns
WriteIndex ==
  /\ pc = "write_index"
  /\ files' = WriteFile(files, IndexName, index_content)
  /\ writes' = Bump(writes, IndexName)
  /\ printed' = printed \cup {"Created index file", "Successfully processed"}
  /\ pc' = AfterMain(call)
  /\ UNCHANGED << input, dir_exists, call, test_cases, idx, sorted_cases, index_content,
                  exit_status, exc, wipes, run, start_dir, start_files, prev_writes >>

\* end of the module: the process ends with status 0
Finish ==
  /\ pc = "eof"
  /\ exit_status' = 0
  /\ pc' = "exited"
  /\ UNCHANGED << input, dir_exists, files, call, test_cases, idx, sorted_cases,
                  index_content, exc, printed, wipes, writes, run, start_dir, start_files,
                  prev_writes >>

\* the script is started again, with a new response file, over the same directory
Rerun ==
  /\ pc = "exited"
  /\ run < MaxRuns
  /\ \E inp \in RerunInputs :
        /\ input' = inp
        /\ pc' = "guard1"
        /\ call' = 0
        /\ test_cases' = << >>
        /\ idx' = 0
        /\ sorted_cases' = << >>
        /\ index_content' = NoDoc
        /\ exit_status' = -1
        /\ exc' = "none"
        /\ printed' = {}
        /\ wipes' = 0
        /\ writes' = NoFiles
        /\ run' = run + 1
        /\ start_dir' = dir_exists
        /\ start_files' = files
        /\ prev_writes' = DOMAIN writes
        /\ UNCHANGED << dir_exists, files >>

Next ==
  \/ Guard
  \/ Load
  \/ Extract
  \/ Prepare
  \/ SkipRecord
  \/ WriteRecord
  \/ CreateIndex
  \/ WriteIndex
  \/ Finish

NextRerun == Next \/ Rerun

Spec == Init /\ [][Next]_vars

SpecRerun == InitRerun /\ [][NextRerun]_vars

\* ------------------------------------------------------------------ claims
Exited == pc = "exited"

\* data.content is a non-empty list
HasRecords ==
  input.file = "object" /\ input.data = "object" /\ input.content = "list"
  /\ Len(input.records) > 0

\* the index this process run built is what INDEX.md holds
IndexOnDisk ==
  IndexName \in DOMAIN files /\ IndexName \in DOMAIN writes /\ files[IndexName].kind = "index"

\* C1: after a run over a non-empty data.content that completes, every record
\* with a non-empty uuid u has its own rendering in <u>.md, and INDEX.md is
\* there with the link ./<u>.md.
C1_EveryUuidHasItsFile ==
  (Exited /\ exit_status = 0 /\ HasRecords) =>
     \A i \in 1..Len(input.records) :
        ~ Falsy(input.records[i].uuid) =>
           LET name == MdName(input.records[i].uuid.v) IN
             /\ name \in DOMAIN files
             /\ files[name] = format_test_case(input.records[i])
             /\ IndexName \in DOMAIN files
             /\ \E r \in DOMAIN files[IndexName].entries :
                   files[IndexName].entries[r].link = name

\* C2, as stated: after a second run that completes on any JSON response, no
\* file the first run wrote remains unless the second run wrote it too, and the
\* .md files present are exactly those the second run wrote.
C2_Original ==
  (run >= 2 /\ Exited /\ exc = "none" /\ input.file = "object") =>
     /\ \A n \in prev_writes : n \in DOMAIN files => n \in DOMAIN writes
     /\ MdFiles(files) = DOMAIN writes

\* C2, amended: after a later run whose data.content is a non-empty list the
\* .md files present are exactly those that run wrote; after a later run on any
\* other input the directory is as that run found it.
C2_Amended ==
  (run >= 2 /\ Exited) =>
     IF HasRecords
     THEN MdFiles(files) = DOMAIN writes
     ELSE files = start_files /\ writes = NoFiles /\ wipes = 0

C2_Witness ==
  /\ run = 2 /\ Exited /\ HasRecords /\ exit_status = 0
  /\ \E n \in prev_writes : n \in DOMAIN start_files /\ n \notin DOMAIN files

\* C3: with the response file missing or not valid JSON the run gets no further
\* than the load, ends with exit status 1, and the output directory is as it was:
\* not created, nothing deleted, nothing written.
C3_BadInputExits1 ==
  input.file \in {"missing", "invalid"} =>
     /\ pc \in {"guard1", "load", "exited"}
     /\ Exited => exit_status = 1
     /\ dir_exists = start_dir
     /\ files = start_files
     /\ wipes = 0
     /\ writes = NoFiles

C3_Witness ==
  /\ Exited /\ input.file = "invalid" /\ exit_status = 1
  /\ start_dir /\ MdFiles(files) # {}

\* C4: with no data, no data.content or an empty data.content list the run
\* never reaches the directory, writes no file, and ends with exit status 0.
C4_NoRecordsNoWrites ==
  (input.file = "object" /\ (input.data = "absent" \/ (input.data = "object" /\
      (input.content = "absent" \/ input.records = << >>)))) =>
     /\ pc \in {"guard1", "load", "extract", "guard2", "eof", "exited"}
     /\ Exited => (exit_status = 0 /\ exc = "none")
     /\ writes = NoFiles
     /\ files = start_files

C4_Witness ==
  /\ Exited /\ exit_status = 0 /\ call = 2
  /\ input.file = "object" /\ input.content = "list" /\ input.records = << >>

\* C5: every run ends having printed a message, with exit status 0 or 1, and
\* with no exception having left main().
C5_NoExceptionLeavesMain ==
  Exited => (exc = "none" /\ printed # {} /\ exit_status \in {0, 1})

\* C6: in the index create_index builds there is one entry per record, ranked
\* 1..n; a record whose createdAt is the greater string has the smaller rank; a
\* record with a missing or empty createdAt comes after every record with a
\* non-empty one; and test_cases still is the list of the response, in its order.
C6_IndexOrder ==
  index_content.kind = "index" =>
     LET n == Len(test_cases)
         es == index_content.entries
         rec(r) == test_cases[sorted_cases[r]]
     IN /\ test_cases = input.records
        /\ Len(es) = n /\ Len(sorted_cases) = n
        /\ {sorted_cases[r] : r \in 1..n} = 1..n
        /\ \A r \in 1..n : es[r].rank = r /\ es[r].uuid = IndexUuid(rec(r))
                           /\ es[r].created = format_timestamp(rec(r).createdAt)
        /\ \A r, q \in 1..n :
              /\ (rec(r).createdAt.k = "str" /\ rec(q).createdAt.k = "str"
                  /\ LexLess(rec(q).createdAt.v, rec(r).createdAt.v)) => r < q
              /\ (~ Falsy(rec(r).createdAt) /\ Falsy(rec(q).createdAt)) => r < q

C6_Witness ==
  /\ index_content.kind = "index"
  /\ Len(test_cases) = 2
  /\ sorted_cases = << 2, 1 >>
  /\ test_cases[1].createdAt = AbsentTs
  /\ test_cases[2].createdAt = Str(<< 1, 0 >>)

\* C7: the total in INDEX.md is data.totalElements whenever that key is there,
\* whatever its value, and else the number of records of data.content, those
\* without a uuid included.
C7_Total ==
  IndexOnDisk =>
     files[IndexName].total =
        IF input.totalElements.k # "absent"
        THEN input.totalElements
        ELSE Int_(Len(input.records))

C7_Witness ==
  /\ Exited /\ IndexOnDisk
  /\ input.totalElements = AbsentInt
  /\ files[IndexName].total = Int_(2)
  /\ \E i \in 1..2 : Falsy(input.records[i].uuid)

\* C8: when data.content holds a record without a uuid the run still ends with
\* exit status 0, having written INDEX.md and the file of every record with a
\* non-empty uuid, and no other file.
C8_SkipDoesNotStopTheRun ==
  (Exited /\ HasRecords /\ \E i \in 1..Len(input.records) : Falsy(input.records[i].uuid)) =>
     /\ exit_status = 0
     /\ DOMAIN writes =
          {IndexName} \cup
          {MdName(input.records[i].uuid.v) :
              i \in {j \in 1..Len(input.records) : ~ Falsy(input.records[j].uuid)}}
     /\ DOMAIN writes \subseteq DOMAIN files

\* C9: within one process run the *.md files are deleted at most once, and a
\* file is opened for writing at most once for each record that names it, plus
\* once for the index when it is INDEX.md.
C9_SinglePass ==
  /\ wipes <= 1
  /\ \A n \in DOMAIN writes :
        writes[n] <=
           Cardinality({i \in 1..Len(test_cases) :
                           ~ Falsy(test_cases[i].uuid) /\ MdName(test_cases[i].uuid.v) = n})
           + (IF n = IndexName THEN 1 ELSE 0)

\* C10, as stated: after a successful run every entry of INDEX.md is the entry
\* of a record whose file was written in that run, and its link names a file
\* that exists.
C10_Original ==
  (Exited /\ exit_status = 0 /\ IndexOnDisk) =>
     \A r \in DOMAIN files[IndexName].entries :
        /\ ~ Falsy(test_cases[sorted_cases[r]].uuid)
        /\ files[IndexName].entries[r].link \in DOMAIN writes
        /\ files[IndexName].entries[r].link \in DOMAIN files

\* C10, amended: after a successful run INDEX.md has one entry per record of
\* data.content, the skipped ones included; the entry of a record with a
\* non-empty uuid u links to <u>.md, which was written in that run and exists;
\* the entry of a record with no uuid links to N/A.md, of one with an empty
\* uuid to .md.
C10_Amended ==
  (Exited /\ exit_status = 0 /\ IndexOnDisk) =>
     LET es == files[IndexName].entries IN
       /\ Len(es) = Len(input.records)
       /\ \A r \in 1..Len(es) :
            LET tc == input.records[sorted_cases[r]] IN
              /\ ~ Falsy(tc.uuid) =>
                    /\ es[r].link = MdName(tc.uuid.v)
                    /\ es[r].link \in DOMAIN writes
                    /\ es[r].link \in DOMAIN files
              /\ tc.uuid.k = "absent" => es[r].link = MdName("N/A")
              /\ tc.uuid = Str("") => es[r].link = MdName("")

C10_Witness ==
  /\ Exited /\ exit_status = 0 /\ IndexOnDisk
  /\ Len(input.records) = 2
  /\ \E i, j \in 1..2 : /\ input.records[i].uuid.k = "absent"
                        /\ input.records[j].uuid = Str("a")
  /\ MdName("N/A") \notin DOMAIN files

====
